---- MODULE Spec2Model ----
(***************************************************************************)
(* Model of streamlit_app.py, the ServiceNow incident summarizer: the      *)
(* session state, the three button handlers, the render pass that follows  *)
(* every handler, and the text helpers they call.                          *)
(*                                                                         *)
(* Texts are sequences of tokens (strings).  An Optional value is a        *)
(* sequence of length at most one: None is <<>> and Some(v) is <<v>>.      *)
(* A Python dict is a record, so that  'k' in d  is  "k" \in DOMAIN d.     *)
(* File names are sequences of one-character strings.                      *)
(***************************************************************************)
EXTENDS Integers, Sequences, FiniteSets, TLC

VARIABLES session, cycle, call

vars == <<session, cycle, call>>

None == <<>>

Some(v) == <<v>>

\* Python truthiness of an Optional text / bytes / dict: None and the empty
\* sequence are both falsy.
Truthy(opt) == opt # None /\ opt[1] # <<>>

(***************************************************************************)
(* Bounds of the pure-function harness.                                    *)
(***************************************************************************)
MaxNotes == 3

MaxAttachments == 3

(***************************************************************************)
(* The ticketing backend the app talks to (test data).                     *)
(***************************************************************************)
state_mapping ==
  [s \in {"1", "2", "3", "4", "5", "6", "7"} |->
     CASE s = "1" -> "New"
       [] s = "2" -> "In Progress"
       [] s = "3" -> "On Hold"
       [] s = "4" -> "Awaiting Info"
       [] s = "5" -> "Resolved"
       [] s = "6" -> "Closed"
       [] s = "7" -> "Canceled"]

StateName(code) ==
  IF code \in DOMAIN state_mapping THEN state_mapping[code] ELSE "Unknown State"

Incident(number, sys_id, state) ==
  [number |-> number, sys_id |-> sys_id, state |-> state,
   description |-> "desc", priority |-> "3",
   opened_at |-> "t0", resolved_at |-> ""]

\* The incident table of the backend, in table order.
IncidentTable ==
  << Incident("INC1", "s1", "2"),
     Incident("INC2", "s2", "6"),
     Incident("INC3", "s3", "5"),
     Incident("INC4", "s4", "7") >>

\* Identifiers the user can type: the four records, one that matches
\* nothing, and the empty input.
Inputs == {"INC1", "INC2", "INC3", "INC4", "INC9", ""}

Note(element, created, value) ==
  [element |-> element, sys_created_on |-> created, value |-> value]

\* sys_journal_field rows per incident sys_id, in response order.
JournalTable ==
  [s \in {"s1", "s2", "s3", "s4"} |->
     CASE s = "s1" -> << Note("work_notes", "t1", <<"call", "5551234567">>),
                         [element |-> "comments", sys_created_on |-> "t2"],
                         Note("comments", "t3", <<"mail", "a@b.co">>) >>
       [] s = "s2" -> << Note("comments", "t4", <<"ssn", "123-45-6789">>) >>
       [] s = "s3" -> << >>
       [] s = "s4" -> << >>]

Attachment(sys_id, file_name) == [sys_id |-> sys_id, file_name |-> file_name]

\* sys_attachment rows per incident sys_id, in response order.
AttachmentTable ==
  [s \in {"s1", "s2", "s3", "s4"} |->
     CASE s = "s1" -> << Attachment("a1", <<"a", ".", "p", "n", "g">>),
                         Attachment("a2", <<"b", ".", "t", "x", "t">>) >>
       [] s = "s2" -> << Attachment("a3", <<"c", ".", "J", "P", "G">>),
                         Attachment("a4", <<"d", ".", "l", "o", "g">>) >>
       [] s = "s3" -> << >>
       [] s = "s4" -> << Attachment("a5", <<"z", ".", "t", "x", "t">>) >>]

\* Raw content of each attachment file: byte tokens; "<bad-utf8>" stands for a
\* byte sequence that is not valid UTF-8; a5 is a zero-byte file.
FileTable ==
  [a \in {"a1", "a2", "a3", "a4", "a5"} |->
     CASE a = "a1" -> <<"<bad-utf8>">>
       [] a = "a2" -> <<"user", "a@b.co">>
       [] a = "a3" -> <<"<bad-utf8>">>
       [] a = "a4" -> <<"error", "<bad-utf8>", "trace">>
       [] a = "a5" -> << >>]

(***************************************************************************)
(* Ticketing client.  `ok` is whether the HTTP call answers 200.           *)
(***************************************************************************)
\* Mutant: the number filter of the query is lost, so the first row of the
\* table is returned for any identifier.
fetch_incident_data_IgnoresQuery(incident_number, ok) ==
  IF ok THEN Some(IncidentTable[1]) ELSE None

fetch_incident_data(incident_number, ok) ==
  LET hits == SelectSeq(IncidentTable, LAMBDA r : r.number = incident_number)
  IN  IF ok /\ hits # <<>> THEN Some(hits[1]) ELSE None

fetch_incident_notes(incident_sys_id, ok) ==
  IF ok /\ JournalTable[incident_sys_id] # <<>>
  THEN JournalTable[incident_sys_id] ELSE <<>>

fetch_attachments(incident_sys_id, ok) ==
  IF ok /\ AttachmentTable[incident_sys_id] # <<>>
  THEN AttachmentTable[incident_sys_id] ELSE <<>>

fetch_attachment_data(attachment_sys_id, ok) ==
  IF ok THEN Some(FileTable[attachment_sys_id]) ELSE None

(***************************************************************************)
(* Redactor.  A token matches a pattern when it is one of the sample       *)
(* tokens of that pattern's language.                                      *)
(***************************************************************************)
sensitive_patterns == <<"email", "phone", "ssn">>

Matches(pattern, token) ==
  CASE pattern = "email" -> token \in {"a@b.co"}
    [] pattern = "phone" -> token \in {"5551234567"}
    [] pattern = "ssn"   -> token \in {"123-45-6789"}

\* re.sub(pattern, '[REDACTED]', text)
re_sub(pattern, text) ==
  [i \in 1..Len(text) |->
     IF Matches(pattern, text[i]) THEN "[REDACTED]" ELSE text[i]]

RECURSIVE redact_loop(_, _)
redact_loop(k, text) ==
  IF k > Len(sensitive_patterns) THEN text
  ELSE redact_loop(k + 1, re_sub(sensitive_patterns[k], text))

redact_sensitive_info(text) == redact_loop(1, text)

(***************************************************************************)
(* Summarization gateway.  The language model is an opaque function of the *)
(* prompt; `ok` is whether the API call returns without raising.           *)
(***************************************************************************)
Completion(prompt) == <<"completion of:">> \o prompt

ChatCompletion(prompt) == <<"chat answer to:">> \o prompt

\* summarize_text(text, task): the result, the request sent and the st.error
\* messages shown.
summarize_text(text, task, ok) ==
  LET prompt == <<task, " the following ticket notes:\n\n">> \o text
                \o <<"\n\nResult:">>
  IN  [result   |-> IF ok THEN Some(Completion(prompt)) ELSE None,
       llm_calls |-> << [endpoint |-> "Completion", prompt |-> prompt] >>,
       messages |-> IF ok THEN <<>> ELSE << <<"error", "An error occurred">> >>]

(***************************************************************************)
(* Note aggregation, as the two loops that build combined_notes.           *)
(***************************************************************************)
HasAllFields(note) ==
  /\ "element" \in DOMAIN note
  /\ "sys_created_on" \in DOMAIN note
  /\ "value" \in DOMAIN note

note_type(note) ==
  IF note.element = "work_notes" THEN "Work Note" ELSE "Additional Comment"

\* f"{note_type} ({note['sys_created_on']}): {note['value']}\n"
note_content(note) ==
  <<note_type(note), " (", note.sys_created_on, "): ">> \o note.value \o <<"\n">>

\* The loop of summarize_incident: combined_notes and the skip notices.
RECURSIVE combine_summarize(_, _, _)
combine_summarize(incident_notes, i, acc) ==
  IF i > Len(incident_notes) THEN acc
  ELSE LET note == incident_notes[i]
       IN  IF HasAllFields(note)
           THEN combine_summarize(incident_notes, i + 1,
                  [acc EXCEPT !.combined_notes = @ \o note_content(note)])
           ELSE combine_summarize(incident_notes, i + 1,
                  [acc EXCEPT !.skipped = Append(@, note)])

\* Mutant: each line is put in front of the text built so far.
RECURSIVE combine_resolution_Prepends(_, _, _)
combine_resolution_Prepends(incident_notes, i, combined_notes) ==
  IF i > Len(incident_notes) THEN combined_notes
  ELSE LET note == incident_notes[i]
       IN  IF HasAllFields(note)
           THEN combine_resolution_Prepends(incident_notes, i + 1,
                                            note_content(note) \o combined_notes)
           ELSE combine_resolution_Prepends(incident_notes, i + 1, combined_notes)

\* The loop of fetch_detailed_resolution_steps: no skip notice.
RECURSIVE combine_resolution(_, _, _)
combine_resolution(incident_notes, i, combined_notes) ==
  IF i > Len(incident_notes) THEN combined_notes
  ELSE LET note == incident_notes[i]
       IN  IF HasAllFields(note)
           THEN combine_resolution(incident_notes, i + 1,
                                   combined_notes \o note_content(note))
           ELSE combine_resolution(incident_notes, i + 1, combined_notes)

summarize_incident(incident_data, incident_notes, ok) ==
  LET acc == combine_summarize(incident_notes, 1,
                               [combined_notes |-> <<>>, skipped |-> <<>>])
      cleaned_notes == redact_sensitive_info(acc.combined_notes)
      s == summarize_text(cleaned_notes, "Summarize", ok)
  IN  [incident_summary |->
         [Incident_Number |-> incident_data.number,
          Description |-> incident_data.description,
          Priority |-> incident_data.priority,
          Resolved_At |-> incident_data.resolved_at,
          Opened_At |-> incident_data.opened_at,
          State |-> StateName(incident_data.state)],
       summarized_notes |-> s.result,
       combined_notes |-> acc.combined_notes,
       skipped |-> acc.skipped,
       llm_calls |-> s.llm_calls,
       messages |-> s.messages]

fetch_detailed_resolution_steps(incident_data, incident_notes, ok) ==
  LET combined_notes == combine_resolution(incident_notes, 1, <<>>)
      cleaned_notes == redact_sensitive_info(combined_notes)
      prompt == <<"Provide detailed resolution steps for incident ",
                  incident_data.number, ":\n\n">> \o cleaned_notes
                \o <<"\n\nSteps:">>
  IN  [detailed_steps |-> IF ok THEN Some(ChatCompletion(prompt)) ELSE None,
       combined_notes |-> combined_notes,
       llm_calls |-> << [endpoint |-> "ChatCompletion", prompt |-> prompt] >>,
       messages |-> IF ok THEN <<>> ELSE << <<"error", "An error occurred">> >>]

(***************************************************************************)
(* Attachment summarizer.                                                  *)
(***************************************************************************)
image_extensions ==
  << <<".", "p", "n", "g">>, <<".", "j", "p", "g">>, <<".", "j", "p", "e", "g">>,
     <<".", "g", "i", "f">>, <<".", "b", "m", "p">>, <<".", "t", "i", "f", "f">> >>

\* The letters str.lower() changes (ASCII).
ToLower ==
  ("A" :> "a") @@ ("B" :> "b") @@ ("C" :> "c") @@ ("D" :> "d") @@ ("E" :> "e") @@
  ("F" :> "f") @@ ("G" :> "g") @@ ("H" :> "h") @@ ("I" :> "i") @@ ("J" :> "j") @@
  ("K" :> "k") @@ ("L" :> "l") @@ ("M" :> "m") @@ ("N" :> "n") @@ ("O" :> "o") @@
  ("P" :> "p") @@ ("Q" :> "q") @@ ("R" :> "r") @@ ("S" :> "s") @@ ("T" :> "t") @@
  ("U" :> "u") @@ ("V" :> "v") @@ ("W" :> "w") @@ ("X" :> "x") @@ ("Y" :> "y") @@
  ("Z" :> "z")

\* str.lower()
lower(name) ==
  [i \in 1..Len(name) |->
     IF name[i] \in DOMAIN ToLower THEN ToLower[name[i]] ELSE name[i]]

\* str.endswith(ext)
endswith(name, ext) ==
  /\ Len(ext) <= Len(name)
  /\ SubSeq(name, Len(name) - Len(ext) + 1, Len(name)) = ext

\* any(file_name.lower().endswith(ext) for ext in image_extensions)
IsImage(file_name) ==
  LET lowered == lower(file_name)
  IN  \E k \in 1..Len(image_extensions) : endswith(lowered, image_extensions[k])

\* bytes.decode('utf-8', errors='ignore')
decode(file_data) == SelectSeq(file_data, LAMBDA b : b # "<bad-utf8>")

\* The attachments whose bytes the loop asks for.
NeedsFetch(attachments) ==
  {i \in 1..Len(attachments) :
     ~IsImage(attachments[i].file_name) /\ "sys_id" \in DOMAIN attachments[i]}

\* The loop of summarize_attachments.  fetch_ok[i] and llm_ok[i] are the
\* outcomes of the byte fetch and of the completion call for attachment i.
RECURSIVE attachments_loop(_, _, _, _, _)
attachments_loop(attachments, i, fetch_ok, llm_ok, acc) ==
  IF i > Len(attachments) THEN acc
  ELSE LET attachment == attachments[i]
           file_name == attachment.file_name
       IN  IF ~IsImage(file_name) /\ "sys_id" \in DOMAIN attachment
           THEN LET file_data == fetch_attachment_data(attachment.sys_id, fetch_ok[i])
                    fetched == [acc EXCEPT !.byte_fetches = Append(@, attachment.sys_id)]
                IN  IF Truthy(file_data)
                    THEN LET file_content == decode(file_data[1])
                             s == summarize_text(file_content, "Summarize", llm_ok[i])
                         IN  attachments_loop(attachments, i + 1, fetch_ok, llm_ok,
                               [fetched EXCEPT
                                  !.summaries = Append(@, [File_Name |-> file_name,
                                                           Summary |-> s.result]),
                                  !.llm_calls = @ \o s.llm_calls,
                                  !.messages = @ \o s.messages])
                    ELSE attachments_loop(attachments, i + 1, fetch_ok, llm_ok, fetched)
           ELSE attachments_loop(attachments, i + 1, fetch_ok, llm_ok, acc)

summarize_attachments(attachments, fetch_ok, llm_ok) ==
  attachments_loop(attachments, 1, fetch_ok, llm_ok,
    [summaries |-> <<>>, byte_fetches |-> <<>>, llm_calls |-> <<>>,
     messages |-> <<>>])

(***************************************************************************)
(* Session orchestrator: the script body, run once per user action.        *)
(***************************************************************************)
\* Lines 200-205: the session state of a new session.
EmptySession ==
  [incident_data |-> None, incident_notes |-> None, summarized_notes |-> None,
   resolution_steps |-> None, incident_number |-> None]

\* What the handler part of a run did, when no button did anything.
NoHandlerLog ==
  [looked_up |-> FALSE, fetched |-> None, messages |-> <<>>, skipped |-> <<>>,
   note_fetches |-> <<>>, llm_calls |-> <<>>]

\* Mutant: the handler forgets to reset the resolution steps.
SummarizeHandler_KeepsSteps(sess, incident_number, inc_ok, notes_ok, llm_ok) ==
  IF incident_number # ""
  THEN LET stored == [sess EXCEPT !.incident_number = Some(incident_number)]
           incident_data == fetch_incident_data(incident_number, inc_ok)
       IN  IF incident_data # None
           THEN LET incident_notes ==
                      fetch_incident_notes(incident_data[1].sys_id, notes_ok)
                    r == summarize_incident(incident_data[1], incident_notes, llm_ok)
                IN  [session |-> [stored EXCEPT
                                    !.incident_data = incident_data,
                                    !.incident_notes = Some(incident_notes),
                                    !.summarized_notes = r.summarized_notes],
                     log |-> [looked_up |-> TRUE, fetched |-> incident_data,
                              messages |-> r.messages, skipped |-> r.skipped,
                              note_fetches |-> <<incident_data[1].sys_id>>,
                              llm_calls |-> r.llm_calls]]
           ELSE [session |-> stored,
                 log |-> [NoHandlerLog EXCEPT
                            !.looked_up = TRUE,
                            !.messages = << <<"error", "Incident not found.">> >>]]
  ELSE [session |-> sess, log |-> NoHandlerLog]

\* The "Summarize Incident" button, lines 216-230.
SummarizeHandler(sess, incident_number, inc_ok, notes_ok, llm_ok) ==
  IF incident_number # ""
  THEN LET stored == [sess EXCEPT !.incident_number = Some(incident_number)]
           incident_data == fetch_incident_data(incident_number, inc_ok)
       IN  IF incident_data # None
           THEN LET incident_notes ==
                      fetch_incident_notes(incident_data[1].sys_id, notes_ok)
                    r == summarize_incident(incident_data[1], incident_notes, llm_ok)
                IN  [session |-> [stored EXCEPT
                                    !.incident_data = incident_data,
                                    !.incident_notes = Some(incident_notes),
                                    !.summarized_notes = r.summarized_notes,
                                    !.resolution_steps = None],
                     log |-> [looked_up |-> TRUE, fetched |-> incident_data,
                              messages |-> r.messages, skipped |-> r.skipped,
                              note_fetches |-> <<incident_data[1].sys_id>>,
                              llm_calls |-> r.llm_calls]]
           ELSE [session |-> stored,
                 log |-> [NoHandlerLog EXCEPT
                            !.looked_up = TRUE,
                            !.messages = << <<"error", "Incident not found.">> >>]]
  ELSE [session |-> sess, log |-> NoHandlerLog]

\* Mutant: the stored identifier survives the clear.
ClearHandler_KeepsNumber(sess) ==
  [session |-> [sess EXCEPT !.incident_data = None,
                            !.incident_notes = None,
                            !.summarized_notes = None,
                            !.resolution_steps = None],
   log |-> NoHandlerLog]

\* The "Clear" button, lines 233-239 (st.rerun() then runs the script again
\* with no button pressed).
ClearHandler(sess) ==
  [session |-> [sess EXCEPT !.incident_data = None,
                            !.incident_notes = None,
                            !.summarized_notes = None,
                            !.resolution_steps = None,
                            !.incident_number = None],
   log |-> NoHandlerLog]

\* Mutant: the state of the incident is not checked.
ResolutionHandler_NoStateCheck(sess, incident_number, inc_ok, notes_ok, llm_ok) ==
  IF incident_number # ""
  THEN LET incident_data == fetch_incident_data(incident_number, inc_ok)
       IN  IF incident_data # None
           THEN LET incident_notes ==
                      fetch_incident_notes(incident_data[1].sys_id, notes_ok)
                    r == fetch_detailed_resolution_steps(
                           incident_data[1], incident_notes, llm_ok)
                IN  [session |-> [sess EXCEPT
                                    !.incident_data = incident_data,
                                    !.incident_notes = Some(incident_notes),
                                    !.resolution_steps = r.detailed_steps],
                     log |-> [looked_up |-> TRUE, fetched |-> incident_data,
                              messages |-> r.messages, skipped |-> <<>>,
                              note_fetches |-> <<incident_data[1].sys_id>>,
                              llm_calls |-> r.llm_calls]]
           ELSE [session |-> sess,
                 log |-> [NoHandlerLog EXCEPT
                            !.looked_up = TRUE,
                            !.messages = << <<"error", "Incident not found.">> >>]]
  ELSE [session |-> sess,
        log |-> [NoHandlerLog EXCEPT
                   !.messages = << <<"error", "Please enter an incident number.">> >>]]

\* The "Resolution Steps" button, lines 243-263.
ResolutionHandler(sess, incident_number, inc_ok, notes_ok, llm_ok) ==
  IF incident_number # ""
  THEN LET incident_data == fetch_incident_data(incident_number, inc_ok)
       IN  IF incident_data # None
           THEN IF incident_data[1].state \in {"6", "5", "7"}
                THEN [session |-> sess,
                      log |-> [NoHandlerLog EXCEPT
                                 !.looked_up = TRUE,
                                 !.fetched = incident_data,
                                 !.messages = << <<"info",
                                   "Resolution steps are not available for Canceled or Closed or Resolved incidents.">> >>]]
                ELSE LET incident_notes ==
                           fetch_incident_notes(incident_data[1].sys_id, notes_ok)
                         r == fetch_detailed_resolution_steps(
                                incident_data[1], incident_notes, llm_ok)
                     IN  [session |-> [sess EXCEPT
                                         !.incident_data = incident_data,
                                         !.incident_notes = Some(incident_notes),
                                         !.resolution_steps = r.detailed_steps],
                          log |-> [looked_up |-> TRUE, fetched |-> incident_data,
                                   messages |-> r.messages, skipped |-> <<>>,
                                   note_fetches |-> <<incident_data[1].sys_id>>,
                                   llm_calls |-> r.llm_calls]]
           ELSE [session |-> sess,
                 log |-> [NoHandlerLog EXCEPT
                            !.looked_up = TRUE,
                            !.messages = << <<"error", "Incident not found.">> >>]]
  ELSE [session |-> sess,
        log |-> [NoHandlerLog EXCEPT
                   !.messages = << <<"error", "Please enter an incident number.">> >>]]

\* What a render pass shows and fetches when no incident is held.
NoRender ==
  [table |-> None, summary_area |-> None, steps_area |-> None,
   attachment_list_fetches |-> <<>>, attachments_header |-> FALSE,
   no_attachments |-> FALSE, entries |-> <<>>, downloads |-> <<>>,
   byte_fetches |-> <<>>, llm_calls |-> <<>>, messages |-> <<>>]

\* Lines 291-297: the download button of one listed attachment summary.
DownloadOffered(attachment_summary, dl_ok) ==
  /\ "sys_id" \in DOMAIN attachment_summary
  /\ Truthy(fetch_attachment_data(attachment_summary.sys_id, dl_ok))

\* Lines 267-299: the display of the held incident and of its attachments.
Render(sess, att_ok, fetch_ok, llm_ok, dl_ok) ==
  IF sess.incident_data # None
  THEN LET sys_id == sess.incident_data[1].sys_id
           attachments == fetch_attachments(sys_id, att_ok)
           r == summarize_attachments(attachments, fetch_ok, llm_ok)
           shown == [NoRender EXCEPT
                       !.table = Some(sess.incident_data[1].number),
                       !.summary_area = IF Truthy(sess.summarized_notes)
                                        THEN sess.summarized_notes ELSE None,
                       !.steps_area = IF Truthy(sess.resolution_steps)
                                      THEN sess.resolution_steps ELSE None,
                       !.attachment_list_fetches = <<sys_id>>]
       IN  IF attachments # <<>>
           THEN [shown EXCEPT
                   !.attachments_header = TRUE,
                   !.entries = r.summaries,
                   !.downloads =
                      SelectSeq(r.summaries, LAMBDA e : DownloadOffered(e, dl_ok)),
                   !.byte_fetches = r.byte_fetches,
                   !.llm_calls = r.llm_calls,
                   !.messages = r.messages]
           ELSE [shown EXCEPT !.no_attachments = TRUE]
  ELSE NoRender

\* Every outcome the render pass can have for a session state, over the
\* outcomes of its remote calls.
RenderPasses(sess) ==
  IF sess.incident_data = None THEN {NoRender}
  ELSE UNION {
         LET need == NeedsFetch(fetch_attachments(sess.incident_data[1].sys_id, att_ok))
         IN  { Render(sess, att_ok, fetch_ok, llm_ok, TRUE) :
                 fetch_ok \in [need -> BOOLEAN], llm_ok \in [need -> BOOLEAN] }
         : att_ok \in BOOLEAN }

\* The record of one run of the script: the action, whether the session
\* held an incident and resolution steps when it started, what the handler
\* did and what the render pass did.
Cycle(kind, prev, h, r) ==
  [kind |-> kind,
   prev_loaded |-> prev.incident_data # None,
   prev_steps |-> prev.resolution_steps # None,
   looked_up |-> h.looked_up, fetched |-> h.fetched,
   messages |-> h.messages \o r.messages, skipped |-> h.skipped,
   note_fetches |-> h.note_fetches,
   handler_llm_calls |-> h.llm_calls, render_llm_calls |-> r.llm_calls,
   attachment_list_fetches |-> r.attachment_list_fetches,
   byte_fetches |-> r.byte_fetches,
   table |-> r.table, summary_area |-> r.summary_area,
   steps_area |-> r.steps_area, attachments_header |-> r.attachments_header,
   no_attachments |-> r.no_attachments,
   entries |-> r.entries, downloads |-> r.downloads]

Idle == [fn |-> "idle"]

Init ==
  /\ session = EmptySession
  /\ cycle = Cycle("start", EmptySession, NoHandlerLog, NoRender)
  /\ call = Idle

\* Outcomes of the handler's remote calls: the incident lookup fails (the
\* other calls are then never made), or it answers and the notes fetch and
\* the model call each succeed or fail.
HandlerChoices == {<<FALSE, TRUE, TRUE>>} \cup ({TRUE} \X BOOLEAN \X BOOLEAN)

SummarizeIncident ==
  \E incident_number \in Inputs :
     \E h \in { SummarizeHandler(session, incident_number, c[1], c[2], c[3]) :
                  c \in HandlerChoices } :
        \E r \in RenderPasses(h.session) :
           /\ session' = h.session
           /\ cycle' = Cycle("summarize", session, h.log, r)
           /\ UNCHANGED call

Clear ==
  LET h == ClearHandler(session)
  IN  \E r \in RenderPasses(h.session) :
         /\ session' = h.session
         /\ cycle' = Cycle("clear", session, h.log, r)
         /\ UNCHANGED call

ResolutionSteps ==
  \E incident_number \in Inputs :
     \E h \in { ResolutionHandler(session, incident_number, c[1], c[2], c[3]) :
                  c \in HandlerChoices } :
        \E r \in RenderPasses(h.session) :
           /\ session' = h.session
           /\ cycle' = Cycle("resolution", session, h.log, r)
           /\ UNCHANGED call

Next == SummarizeIncident \/ Clear \/ ResolutionSteps

Spec == Init /\ [][Next]_vars

(***************************************************************************)
(* Harness for the pure helpers: the initial state draws an input, an      *)
(* action applies the helper to it and records what it returned.           *)
(***************************************************************************)
NotePool ==
  { Note("work_notes", "t1", <<"a">>),
    Note("comments", "t2", <<"b">>),
    Note("other", "t3", <<"call", "5551234567">>),
    [element |-> "work_notes", sys_created_on |-> "t4"],
    [sys_created_on |-> "t5", value |-> <<"c">>],
    [element |-> "comments", value |-> <<"d">>] }

AttachmentPool ==
  { Attachment("a1", <<"a", ".", "p", "n", "g">>),
    Attachment("a2", <<"b", ".", "t", "x", "t">>),
    Attachment("a3", <<"c", ".", "J", "P", "G">>),
    Attachment("a4", <<"d", ".", "l", "o", "g">>),
    Attachment("a5", <<"z", ".", "t", "x", "t">>),
    [file_name |-> <<"n", ".", "t", "x", "t">>] }

SeqsUpTo(S, n) == UNION { [1..k -> S] : k \in 0..n }

\* The files of the attachment-filtering example: a.png, b.txt, c.JPG, d.log.
ExampleAttachments ==
  << Attachment("a1", <<"a", ".", "p", "n", "g">>),
     Attachment("a2", <<"b", ".", "t", "x", "t">>),
     Attachment("a3", <<"c", ".", "J", "P", "G">>),
     Attachment("a4", <<"d", ".", "l", "o", "g">>) >>

InitFn ==
  /\ session = EmptySession
  /\ cycle = Cycle("start", EmptySession, NoHandlerLog, NoRender)
  /\ \/ \E notes \in SeqsUpTo(NotePool, MaxNotes) :
           call = [fn |-> "notes", arg |-> notes]
     \/ \E attachments \in SeqsUpTo(AttachmentPool, MaxAttachments)
                             \cup {ExampleAttachments} :
           call = [fn |-> "attachments", arg |-> attachments]

CallSummarizeIncident ==
  /\ call.fn = "notes"
  /\ \E ok \in BOOLEAN :
        call' = [fn |-> "summarize_incident", arg |-> call.arg,
                 out |-> summarize_incident(IncidentTable[1], call.arg, ok)]
  /\ UNCHANGED <<session, cycle>>

CallResolutionSteps ==
  /\ call.fn = "notes"
  /\ \E ok \in BOOLEAN :
        call' = [fn |-> "fetch_detailed_resolution_steps", arg |-> call.arg,
                 out |-> fetch_detailed_resolution_steps(IncidentTable[1],
                                                         call.arg, ok)]
  /\ UNCHANGED <<session, cycle>>

CallSummarizeAttachments ==
  /\ call.fn = "attachments"
  /\ \E fetch_ok \in [NeedsFetch(call.arg) -> BOOLEAN],
        llm_ok \in [NeedsFetch(call.arg) -> BOOLEAN] :
        call' = [fn |-> "summarize_attachments", arg |-> call.arg,
                 fetch_ok |-> fetch_ok,
                 out |-> summarize_attachments(call.arg, fetch_ok, llm_ok)]
  /\ UNCHANGED <<session, cycle>>

NextFn == CallSummarizeIncident \/ CallResolutionSteps \/ CallSummarizeAttachments

SpecFn == InitFn /\ [][NextFn]_vars

(***************************************************************************)
(* Properties.                                                             *)
(***************************************************************************)
InSeq(x, seq) == \E i \in 1..Len(seq) : seq[i] = x

NotFoundMessage == <<"error", "Incident not found.">>

InfoMessage ==
  <<"info",
    "Resolution steps are not available for Canceled or Closed or Resolved incidents.">>

ErrorMessage == <<"error", "An error occurred">>

\* The run was a Summarize Incident or Resolution Steps action whose
\* incident lookup returned None.
NotFoundCycle(c) ==
  c.kind \in {"summarize", "resolution"} /\ c.looked_up /\ c.fetched = None

\* The run was a Resolution Steps action whose lookup returned an incident in
\* state Resolved, Closed or Canceled.
ClosedResolutionCycle(c) ==
  /\ c.kind = "resolution"
  /\ c.fetched # None
  /\ c.fetched[1].state \in {"5", "6", "7"}

\* The run was a Summarize Incident action whose lookup returned an incident.
FoundSummarizeCycle(c) == c.kind = "summarize" /\ c.fetched # None

\* C1: when the submitted identifier matches no record, in Summarize
\* Incident and in Resolution Steps alike, 'Incident not found.' is shown and
\* the session state after the action is exactly the state before it.
C1_NotFoundLeavesSessionUnchanged ==
  [][NotFoundCycle(cycle') =>
       (session' = session /\ InSeq(NotFoundMessage, cycle'.messages))]_vars

\* C2 (as stated): Resolution Steps on an incident in state 5, 6 or 7 makes
\* no note fetch and no summarization call in the whole action cycle, handler
\* and render pass together, and shows only the informational message.
C2_ClosedCycleMakesNoCalls ==
  ClosedResolutionCycle(cycle) =>
    /\ cycle.note_fetches = <<>>
    /\ cycle.handler_llm_calls = <<>>
    /\ cycle.render_llm_calls = <<>>
    /\ cycle.messages = <<InfoMessage>>

\* C2 (amended): Resolution Steps on an incident in state 5, 6 or 7 makes no
\* note fetch in the whole cycle and no summarization call in the handler,
\* and shows the informational message; the render pass makes no
\* summarization call when no incident was held, and otherwise only one
\* completion call per attachment summary it lists for the held incident.
C2_ClosedHandlerMakesNoCalls ==
  ClosedResolutionCycle(cycle) =>
    /\ cycle.note_fetches = <<>>
    /\ cycle.handler_llm_calls = <<>>
    /\ InSeq(InfoMessage, cycle.messages)
    /\ ~cycle.prev_loaded => cycle.render_llm_calls = <<>>
    /\ Len(cycle.render_llm_calls) = Len(cycle.entries)
    /\ \A i \in 1..Len(cycle.render_llm_calls) :
          cycle.render_llm_calls[i].endpoint = "Completion"

C2_Witness ==
  /\ ClosedResolutionCycle(cycle)
  /\ cycle.prev_loaded
  /\ cycle.render_llm_calls # <<>>

\* C3 (as stated): a lookup that returns None triggers no note fetch and no
\* attachment fetch in its action cycle, whatever the prior session state.
C3_NotFoundFetchesNothing ==
  NotFoundCycle(cycle) =>
    /\ cycle.note_fetches = <<>>
    /\ cycle.attachment_list_fetches = <<>>
    /\ cycle.byte_fetches = <<>>

\* C3 (amended): a lookup of an identifier that matches no record returns
\* None; the cycle of a lookup that returned None makes no note fetch, and
\* no attachment fetch unless an incident is already held, in which case the
\* render pass fetches the attachment list and attachment bytes of that held
\* incident only.
C3_NotFoundFetchesOnlyHeldAttachments ==
  /\ \A ok \in BOOLEAN : fetch_incident_data("INC9", ok) = None
  /\ NotFoundCycle(cycle) =>
       /\ cycle.note_fetches = <<>>
       /\ session.incident_data = None =>
            cycle.attachment_list_fetches = <<>> /\ cycle.byte_fetches = <<>>
       /\ session.incident_data # None =>
            /\ cycle.prev_loaded
            /\ cycle.attachment_list_fetches = <<session.incident_data[1].sys_id>>
            /\ \A i \in 1..Len(cycle.byte_fetches) :
                  \E k \in 1..Len(AttachmentTable[session.incident_data[1].sys_id]) :
                     AttachmentTable[session.incident_data[1].sys_id][k].sys_id
                       = cycle.byte_fetches[i]

C3_Witness ==
  /\ NotFoundCycle(cycle)
  /\ cycle.prev_loaded
  /\ cycle.attachment_list_fetches # <<>>
  /\ cycle.byte_fetches # <<>>

\* The summaries and resolution steps the code can produce for an incident:
\* from its journal rows, or from no rows when the notes fetch failed.
SummariesFor(incident_data) ==
  { summarize_incident(incident_data, notes, TRUE).summarized_notes :
      notes \in {JournalTable[incident_data.sys_id], <<>>} }

StepsFor(incident_data) ==
  { fetch_detailed_resolution_steps(incident_data, notes, TRUE).detailed_steps :
      notes \in {JournalTable[incident_data.sys_id], <<>>} }

\* C4: in every reachable session state a held summary or resolution-steps
\* text was produced for the held incident, and the stored identifier is the
\* held incident's number.
C4_SessionHoldsOneIncident ==
  /\ session.summarized_notes # None =>
       /\ session.incident_data # None
       /\ session.summarized_notes \in SummariesFor(session.incident_data[1])
  /\ session.resolution_steps # None =>
       /\ session.incident_data # None
       /\ session.resolution_steps \in StepsFor(session.incident_data[1])
  /\ (session.incident_number # None /\ session.incident_data # None) =>
       session.incident_number[1] = session.incident_data[1].number

\* C5: the Clear action, from any session state, leaves the stored
\* identifier, incident, notes, summary and resolution steps all empty.
C5_ClearResetsSession ==
  cycle.kind = "clear" =>
    /\ session.incident_number = None
    /\ session.incident_data = None
    /\ session.incident_notes = None
    /\ session.summarized_notes = None
    /\ session.resolution_steps = None

C5_Witness ==
  cycle.kind = "clear" /\ cycle.prev_loaded /\ cycle.prev_steps

\* A note that has all three required fields.
ValidNote(note) == {"element", "sys_created_on", "value"} \subseteq DOMAIN note

\* "<label> (<sys_created_on>): <value>\n"
ExpectedLine(note) ==
  << IF note.element = "work_notes" THEN "Work Note" ELSE "Additional Comment",
     " (", note.sys_created_on, "): " >> \o note.value \o <<"\n">>

RECURSIVE ExpectedAggregation(_)
ExpectedAggregation(notes) ==
  IF notes = <<>> THEN <<>>
  ELSE (IF ValidNote(Head(notes)) THEN ExpectedLine(Head(notes)) ELSE <<>>)
       \o ExpectedAggregation(Tail(notes))

SensitiveTokens == {"a@b.co", "5551234567", "123-45-6789"}

ExpectedRedaction(text) ==
  [i \in 1..Len(text) |->
     IF text[i] \in SensitiveTokens THEN "[REDACTED]" ELSE text[i]]

\* The summary of the redacted aggregation of `notes`.
ExpectedSummary(notes) ==
  << "completion of:", "Summarize", " the following ticket notes:\n\n" >>
  \o ExpectedRedaction(ExpectedAggregation(notes)) \o <<"\n\nResult:">>

\* What Summarize Incident stores besides the summary, when the lookup
\* returned an incident.
SummarizeStoresIncident ==
  /\ session.incident_data = cycle.fetched
  /\ session.incident_number = Some(cycle.fetched[1].number)
  /\ session.incident_notes # None
  /\ session.incident_notes[1] \in {JournalTable[cycle.fetched[1].sys_id], <<>>}
  /\ cycle.note_fetches = <<cycle.fetched[1].sys_id>>
  /\ session.resolution_steps = None

\* C6 (as stated): Summarize Incident with an identifier that matches a
\* record stores the incident, its notes and a summary of the redacted
\* aggregation of those notes, and clears the resolution steps.
C6_SummarizeAlwaysStoresSummary ==
  FoundSummarizeCycle(cycle) =>
    /\ SummarizeStoresIncident
    /\ session.summarized_notes = Some(ExpectedSummary(session.incident_notes[1]))

\* C6 (amended): Summarize Incident whose lookup returns a record stores the
\* incident, its notes and the result of summarizing the redacted
\* aggregation of those notes, and clears the resolution steps; the result
\* is the summary when the completion call succeeds, and none, with an error
\* message shown, when it fails.
C6_SummarizeStoresSummaryOrNone ==
  FoundSummarizeCycle(cycle) =>
    /\ SummarizeStoresIncident
    /\ \/ session.summarized_notes = Some(ExpectedSummary(session.incident_notes[1]))
       \/ /\ session.summarized_notes = None
          /\ cycle.messages # <<>>
          /\ cycle.messages[1] = ErrorMessage
    /\ Len(cycle.handler_llm_calls) = 1

C6_Witness ==
  /\ FoundSummarizeCycle(cycle)
  /\ cycle.prev_loaded
  /\ cycle.prev_steps
  /\ session.summarized_notes # None
  /\ session.incident_notes[1] # <<>>

\* C7: aggregation, in summarize_incident and in
\* fetch_detailed_resolution_steps, yields the concatenation in input order
\* of one line per note that has all three fields; a note missing a field
\* adds nothing and does not move the valid notes.
C7_AggregationKeepsInputOrder ==
  call.fn \in {"summarize_incident", "fetch_detailed_resolution_steps"} =>
    /\ call.out.combined_notes = ExpectedAggregation(call.arg)
    /\ call.out.combined_notes
         = ExpectedAggregation(SelectSeq(call.arg, ValidNote))

C7_Witness ==
  /\ call.fn = "fetch_detailed_resolution_steps"
  /\ Len(call.arg) = 3
  /\ ValidNote(call.arg[1]) /\ ~ValidNote(call.arg[2]) /\ ValidNote(call.arg[3])
  /\ call.arg[1].element = "work_notes" /\ call.arg[3].element # "work_notes"
  /\ call.out.combined_notes = ExpectedLine(call.arg[1]) \o ExpectedLine(call.arg[3])

\* The file names, in input order, of the attachments from position i on
\* that are no image and whose byte fetch succeeded.
RECURSIVE ExpectedFiles(_, _, _)
ExpectedFiles(attachments, fetch_ok, i) ==
  IF i > Len(attachments) THEN <<>>
  ELSE (IF /\ ~IsImage(attachments[i].file_name)
           /\ i \in DOMAIN fetch_ok
           /\ fetch_ok[i]
        THEN <<attachments[i].file_name>> ELSE <<>>)
       \o ExpectedFiles(attachments, fetch_ok, i + 1)

\* C8: summarize_attachments emits, in input order, exactly one entry per
\* attachment that is no image and whose byte fetch succeeds; images are
\* never fetched or summarized; a failed fetch gives no entry and no
\* summarization call.
C8_OneEntryPerFetchedNonImage ==
  call.fn = "summarize_attachments" =>
    /\ [i \in 1..Len(call.out.summaries) |-> call.out.summaries[i].File_Name]
         = ExpectedFiles(call.arg, call.fetch_ok, 1)
    /\ Len(call.out.llm_calls) = Len(call.out.summaries)
    /\ \A i \in 1..Len(call.arg) :
          IsImage(call.arg[i].file_name) =>
            ("sys_id" \in DOMAIN call.arg[i] =>
               ~InSeq(call.arg[i].sys_id, call.out.byte_fetches))

\* C9: the render pass offers a download action for each attachment it
\* lists with a summary.
C9_DownloadForEveryListedAttachment ==
  \A i \in 1..Len(cycle.entries) :
     \E k \in 1..Len(cycle.downloads) :
        cycle.downloads[k].File_Name = cycle.entries[i].File_Name

\* C10: every text sent to the completion or chat endpoint, for the incident
\* summary, the resolution steps or an attachment summary, has been
\* redacted: redacting the prompt again changes nothing.
C10_OnlyRedactedTextIsSent ==
  \A i \in 1..Len(cycle.handler_llm_calls \o cycle.render_llm_calls) :
     LET prompt == (cycle.handler_llm_calls \o cycle.render_llm_calls)[i].prompt
     IN  redact_sensitive_info(prompt) = prompt

====
